---- MODULE Spec2Model ----
(***************************************************************************)
(* Model of src/preprocessing/dataset.py: class Dataset.                    *)
(*                                                                         *)
(* The state is the Dataset object: its construction parameters, the        *)
(* tokenized content it reads, the span table built by __init__             *)
(* (generate_subsamples_span followed by resample) and the record returned  *)
(* by the last __getitem__.  Token ids are modelled as tagged triples       *)
(* <<kind, id, position>> so that the provenance of every position of an    *)
(* assembled sequence can be read back.                                     *)
(***************************************************************************)
EXTENDS Integers, Sequences, FiniteSets, TLC

VARIABLES
    max_length,             \* self.max_length
    stride,                 \* self.stride
    min_answer_length,      \* self.min_answer_length
    tokenizer_info,         \* self.tokenizer_info: seperators, padding_id
    content,                \* self.content: question / context blocks by id
    answers_span,           \* self.answers_span: the annotation rows
    n_seps_before_context,  \* self.n_seps_before_context
    generated,              \* result of generate_subsamples_span()
    subsample_spans,        \* self.subsample_spans (after resample)
    pc,                     \* "new" | "built" | "failed"
    error,                  \* exception that ended __init__, or "none"
    idx,                    \* argument of the last __getitem__, 0 if none
    subsample,              \* combine_qc result inside __getitem__ (unpadded)
    item                    \* record returned by the last __getitem__

vars == <<max_length, stride, min_answer_length, tokenizer_info, content,
          answers_span, n_seps_before_context, generated, subsample_spans,
          pc, error, idx, subsample, item>>

----------------------------------------------------------------------------
(* Bounds of the explored inputs.                                          *)

MinLength == 4
MaxLength == 7
MaxLenQuestion == 2
MaxLenContext == 4
MaxStride == 3
MaxMinAnswerLength == 2
MaxAnswerLength == 3

(* Separator templates: -1 is a content slot, a value >= 0 a literal id.   *)
Templates == { <<-1, 5, -1>>, <<5, -1, 5, 5, -1, 5>> }

PaddingId == 0

----------------------------------------------------------------------------
(* Helpers for Python / numpy semantics.                                   *)

Min(a, b) == IF a <= b THEN a ELSE b
Max(a, b) == IF a >= b THEN a ELSE b

(* Python's // on ints: floor division, b # 0.                             *)
FloorDiv(a, b) == IF b > 0 THEN a \div b ELSE (0 - a) \div (0 - b)

(* Python's seq[a:b] with list semantics (negative indices count from the  *)
(* end, everything is clamped to the list).  a, b are 0-based.             *)
PyIndex(i, n) == IF i < 0 THEN Max(i + n, 0) ELSE Min(i, n)

PySlice(s, a, b) ==
    LET lo == PyIndex(a, Len(s))
        hi == PyIndex(b, Len(s))
    IN IF lo < hi THEN SubSeq(s, lo + 1, hi) ELSE << >>

Repeat(x, n) == [i \in 1..Max(n, 0) |-> x]

(* Tokens.                                                                 *)
CTok(id, i) == <<"c", id, i>>
SepTok(sep) == <<"sep", 0, sep>>
PadTok(p)   == <<"pad", 0, p>>

Block(kind, id, n) ==
    [input_ids      |-> [i \in 1..n |-> <<kind, id, i - 1>>],
     attention_mask |-> [i \in 1..n |-> 1]]

----------------------------------------------------------------------------
(* Dataset._get_instance                                                   *)
GetInstance(idenifier, instance_type) == content[instance_type][idenifier]

(* src.preprocessing.utils.calculate_overlap: the size of the overlap of   *)
(* the window [start1, end1] (inclusive) with the answer, which the caller *)
(* passes as start2 and end2 = ans_end + 1.                                *)
calculate_overlap(start1, end1, start2, end2) ==
    Max(Min(end1 + 1, end2) - Max(start1, start2), 0)

(* n_seps = sum(np.array(seperators) >= 0)                                 *)
NSeps(seps) == Cardinality({i \in 1..Len(seps) : seps[i] >= 0})

(* Dataset.__init__, lines 69-74.                                          *)
NSepsBeforeContext(seps) ==
    LET rev == [i \in 1..Len(seps) |-> seps[Len(seps) + 1 - i]]
        first == CHOOSE i \in 1..Len(rev) :
                    rev[i] = -1 /\ \A j \in 1..(i - 1) : rev[j] # -1
        context_start == Len(seps) - ((first - 1) + 1)
    IN Cardinality({i \in 1..context_start : seps[i] >= 0})

----------------------------------------------------------------------------
(* Dataset.generate_subsample_span                                         *)

(* subcontext_max_length = self.max_length - len_question - n_seps         *)
SubcontextMaxLength(len_question) ==
    max_length - len_question - NSeps(tokenizer_info.seperators)

(* stride_ = subcontext_max_length - self.stride                           *)
EffectiveStride(len_question) == SubcontextMaxLength(len_question) - stride

(* Variant of NSub that forgets to take the stride off the context length. *)
NSubIgnoringStride(len_context, stride_) == FloorDiv(len_context, stride_) + 1

(* n_sub = (len_context - self.stride) // stride_ + 1                      *)
NSub(len_context, stride_) == FloorDiv(len_context - stride, stride_) + 1

(* Variant of SubcontextSpans whose windows end one index too far.         *)
SubcontextSpansEndOffByOne(subcontext_max_length, stride_, n_sub) ==
    [i \in 1..n_sub |->
        << 0 + stride_ * (i - 1),
           subcontext_max_length + stride_ * (i - 1) >>]

(* subcontext_spans: n_sub copies of [0, subcontext_max_length - 1], the   *)
(* i-th shifted by stride_ * i.                                            *)
SubcontextSpans(subcontext_max_length, stride_, n_sub) ==
    [i \in 1..n_sub |->
        << 0 + stride_ * (i - 1),
           (subcontext_max_length - 1) + stride_ * (i - 1) >>]

(* Variant of AnswerShifted that forgets the separators before the        *)
(* context.                                                                *)
AnswerShiftedWithoutSeps(context_start, context_end, ans_start, ans_end, len_question, seps_before) ==
    IF calculate_overlap(context_start, context_end, ans_start, ans_end + 1)
          >= Min(ans_end - ans_start + 1, min_answer_length)
    THEN << ans_start - context_start + len_question,
            ans_end - context_start + len_question >>
    ELSE << 0, 0 >>

(* One element of answers_shifted; seps_before is the value of            *)
(* self.n_seps_before_context that __init__ has just set.                  *)
AnswerShifted(context_start, context_end, ans_start, ans_end, len_question, seps_before) ==
    IF calculate_overlap(context_start, context_end, ans_start, ans_end + 1)
          >= Min(ans_end - ans_start + 1, min_answer_length)
    THEN << ans_start - context_start + len_question + seps_before,
            ans_end - context_start + len_question + seps_before >>
    ELSE << 0, 0 >>

(* Returns the frame, or the exception raised: integer division by zero   *)
(* when stride_ = 0; np.repeat refuses a negative n_sub; with n_sub = 0    *)
(* np.concatenate is handed a (0, 2) array and an empty list.              *)
GenerateSubsampleSpan(question, context, answer_span, seps_before) ==
    LET len_question == Len(question.input_ids)
        len_context  == Len(context.input_ids)
        subcontext_max_length == SubcontextMaxLength(len_question)
        stride_ == EffectiveStride(len_question)
    IN IF stride_ = 0
       THEN [error |-> "ZeroDivisionError", rows |-> << >>]
       ELSE LET n_sub == NSub(len_context, stride_)
            IN IF n_sub <= 0
               THEN [error |-> "ValueError", rows |-> << >>]
               ELSE LET spans == SubcontextSpans(subcontext_max_length,
                                                 stride_, n_sub)
                        shifted == [i \in 1..n_sub |->
                                      AnswerShifted(spans[i][1], spans[i][2],
                                                    answer_span[1],
                                                    answer_span[2],
                                                    len_question,
                                                    seps_before)]
                    IN [error |-> "none",
                        rows  |-> [i \in 1..n_sub |->
                            [subcontext_start |-> spans[i][1],
                             subcontext_end   |-> spans[i][2],
                             answer_start     |-> shifted[i][1],
                             answer_end       |-> shifted[i][2]]]]

(* Dataset.generate_subsamples_span: one frame per annotation, tagged with *)
(* the annotation's ids, concatenated in annotation order.  The first      *)
(* exception ends the loop and leaves __init__.                            *)
RECURSIVE SubsamplesSpanFrom(_, _, _)
SubsamplesSpanFrom(k, acc, seps_before) ==
    IF k > Len(answers_span)
    THEN [error |-> "none", rows |-> acc]
    ELSE LET a == answers_span[k]
             context  == GetInstance(a.context_id, "context")
             question == GetInstance(a.question_id, "question")
             span == GenerateSubsampleSpan(question, context,
                                           <<a.answer_start, a.answer_end>>,
                                           seps_before)
         IN IF span.error # "none"
            THEN [error |-> span.error, rows |-> << >>]
            ELSE SubsamplesSpanFrom(k + 1,
                    acc \o [i \in 1..Len(span.rows) |->
                              [question_id      |-> a.question_id,
                               context_id       |-> a.context_id,
                               subcontext_start |-> span.rows[i].subcontext_start,
                               subcontext_end   |-> span.rows[i].subcontext_end,
                               answer_start     |-> span.rows[i].answer_start,
                               answer_end       |-> span.rows[i].answer_end]],
                    seps_before)

GenerateSubsamplesSpan(seps_before) == SubsamplesSpanFrom(1, << >>, seps_before)

(* src.preprocessing.utils.resample(df, mask): the balancer; mask is the   *)
(* boolean column that marks the answerable rows.  Its output is made of   *)
(* rows of df only; the outcomes explored are the table itself and the     *)
(* table cut down to the rows the mask selects.                            *)
SelectRows(df, mask) ==
    LET F[i \in 0..Len(df)] ==
          IF i = 0 THEN << >>
          ELSE IF mask[i] THEN Append(F[i - 1], df[i]) ELSE F[i - 1]
    IN F[Len(df)]

resample(df, mask) == { df, SelectRows(df, mask) }

----------------------------------------------------------------------------
(* Dataset.combine_qc: walks the separator template; a literal appends one *)
(* element per field, a slot appends the next pending block.               *)
RECURSIVE CombineFrom(_, _, _)
CombineFrom(k, result, pending) ==
    IF k > Len(tokenizer_info.seperators)
    THEN result
    ELSE LET sep == tokenizer_info.seperators[k]
         IN IF sep >= 0
            THEN CombineFrom(k + 1,
                    [input_ids      |-> Append(result.input_ids, SepTok(sep)),
                     attention_mask |-> Append(result.attention_mask, 1)],
                    pending)
            ELSE CombineFrom(k + 1,
                    [input_ids      |-> result.input_ids \o Head(pending).input_ids,
                     attention_mask |-> result.attention_mask
                                          \o Head(pending).attention_mask],
                    Tail(pending))

combine_qc(question, context) ==
    CombineFrom(1, [input_ids |-> << >>, attention_mask |-> << >>],
                <<question, context>>)

(* Dataset.__getitem__, lines 93-96: the window's slice of the context.    *)
Subcontext(context, instance) ==
    [input_ids      |-> PySlice(context.input_ids, instance.subcontext_start,
                                instance.subcontext_end + 1),
     attention_mask |-> PySlice(context.attention_mask,
                                instance.subcontext_start,
                                instance.subcontext_end + 1)]

(* Dataset.__getitem__, lines 98-106: right padding and the labels.        *)
Padded(sub, instance) ==
    [input_ids       |-> sub.input_ids
                           \o Repeat(PadTok(tokenizer_info.padding_id),
                                     max_length - Len(sub.input_ids)),
     attention_mask  |-> sub.attention_mask
                           \o Repeat(0, max_length - Len(sub.attention_mask)),
     start_positions |-> instance.answer_start,
     end_positions   |-> instance.answer_end]

----------------------------------------------------------------------------
(* The inputs: constructor arguments and the tokenized data the            *)
(* constructor loads (lines 38-67).                                        *)

NoBlock == [input_ids |-> << >>, attention_mask |-> << >>]
NoItem  == [input_ids |-> << >>, attention_mask |-> << >>,
            start_positions |-> 0, end_positions |-> 0]

(* The first annotation ranges over the bounds; the table may hold a       *)
(* second one, on a longer question and another context.                   *)
SecondQuestion   == Block("q", 2, MaxLenQuestion + 1)
SecondContext    == Block("c", 2, 4)
SecondAnnotation == [question_id |-> 2, context_id |-> 2,
                     answer_start |-> 1, answer_end |-> 2]

InputsFrom(lengths, templates, question_lengths, context_lengths) ==
    /\ max_length \in lengths
    /\ stride \in 0..MaxStride
    /\ min_answer_length \in 1..MaxMinAnswerLength
    /\ \E seps \in templates :
          tokenizer_info = [seperators |-> seps, padding_id |-> PaddingId]
    /\ \E lq \in question_lengths, lc \in context_lengths,
          a_len \in 0..MaxAnswerLength, second \in BOOLEAN :
        \E a_start \in -1..lc :
          /\ a_start + a_len - 1 <= lc
          /\ content =
               [question |-> IF second
                             THEN <<Block("q", 1, lq), SecondQuestion>>
                             ELSE <<Block("q", 1, lq)>>,
                context  |-> IF second
                             THEN <<Block("c", 1, lc), SecondContext>>
                             ELSE <<Block("c", 1, lc)>>]
          /\ answers_span =
               LET first == [question_id |-> 1, context_id |-> 1,
                             answer_start |-> a_start,
                             answer_end   |-> a_start + a_len - 1]
               IN IF second THEN <<first, SecondAnnotation>> ELSE <<first>>
    /\ n_seps_before_context = 0
    /\ generated = << >>
    /\ subsample_spans = << >>
    /\ pc = "new"
    /\ error = "none"
    /\ idx = 0
    /\ subsample = NoBlock
    /\ item = NoItem

(* All configurations and annotations within the bounds.                   *)
Init ==
    InputsFrom(MinLength..MaxLength, Templates,
               0..MaxLenQuestion, 1..MaxLenContext)

(* The setup of the concrete scenario (max_length = 10, separators         *)
(* [-1, 5, -1], a question of 3 tokens, a context of 6 tokens) with every  *)
(* stride, min_answer_length and annotation within the bounds.             *)
ScenarioInit == InputsFrom({10}, { <<-1, 5, -1>> }, {3}, {6})

(* Dataset.__init__, lines 69-77: the separators before the context, the   *)
(* span table, the balancer.  An exception leaves no table.                *)
Answerable(df) == [i \in 1..Len(df) |-> df[i].answer_end > 0]

DatasetInit ==
    /\ pc = "new"
    /\ LET seps_before == NSepsBeforeContext(tokenizer_info.seperators)
           built == GenerateSubsamplesSpan(seps_before)
       IN /\ n_seps_before_context' = seps_before
          /\ IF built.error # "none"
             THEN /\ pc' = "failed"
                  /\ error' = built.error
                  /\ UNCHANGED <<generated, subsample_spans>>
             ELSE /\ pc' = "built"
                  /\ error' = "none"
                  /\ generated' = built.rows
                  /\ subsample_spans' \in resample(built.rows, Answerable(built.rows))
    /\ UNCHANGED <<max_length, stride, min_answer_length, tokenizer_info,
                   content, answers_span, idx, subsample, item>>

(* Dataset.__getitem__(i)                                                  *)
GetItem ==
    /\ pc = "built"
    /\ \E i \in 0..(Len(subsample_spans) - 1) :
          LET instance == subsample_spans[i + 1]
              question == GetInstance(instance.question_id, "question")
              context  == GetInstance(instance.context_id, "context")
              sub == combine_qc(question, Subcontext(context, instance))
          IN /\ idx' = i
             /\ subsample' = sub
             /\ item' = Padded(sub, instance)
    /\ UNCHANGED <<max_length, stride, min_answer_length, tokenizer_info,
                   content, answers_span, n_seps_before_context, generated,
                   subsample_spans, pc, error>>

Next == DatasetInit \/ GetItem

Spec == Init /\ [][Next]_vars

SpecScenario == ScenarioInit /\ [][Next]_vars

----------------------------------------------------------------------------
(* Vocabulary of the properties.                                           *)

Annotations == 1..Len(answers_span)

LenQuestion(a) == Len(GetInstance(answers_span[a].question_id, "question").input_ids)
LenContext(a)  == Len(GetInstance(answers_span[a].context_id, "context").input_ids)

(* Indices of the rows of the pre-balancing table that annotation a made.  *)
RowsOf(a) == {k \in 1..Len(generated) :
                 generated[k].question_id = answers_span[a].question_id}

(* Number of indices two inclusive ranges share.                           *)
InclusiveOverlap(s1, e1, s2, e2) == Cardinality((s1..e1) \cap (s2..e2))

ValidConfig(a) ==
    /\ SubcontextMaxLength(LenQuestion(a)) > 0
    /\ 0 <= stride
    /\ stride < SubcontextMaxLength(LenQuestion(a))

ValidAnnotation(a) ==
    /\ 0 <= answers_span[a].answer_start
    /\ answers_span[a].answer_start <= answers_span[a].answer_end
    /\ answers_span[a].answer_end <= LenContext(a) - 1

Sentinel(row) == row.answer_start = 0 /\ row.answer_end = 0

AllValidConfig      == \A a \in Annotations : ValidConfig(a)
AllValidAnnotations == \A a \in Annotations : ValidAnnotation(a)

(* __getitem__ has returned a record.                                      *)
Got == pc = "built" /\ Len(item.input_ids) > 0

----------------------------------------------------------------------------
(* C1: every row of an annotation with ans_start <= ans_end carries a      *)
(* non-sentinel span with mapped_end >= mapped_start >= 0 when the         *)
(* inclusive overlap of its window and the answer reaches                  *)
(* min(answer length, min_answer_length), and exactly (0,0) otherwise.     *)
(* Stated for tables built from valid annotations under a valid            *)
(* configuration.                                                          *)
C1_RemapNonNegativeOrSentinel ==
    (pc = "built" /\ AllValidConfig /\ AllValidAnnotations) =>
      \A a \in Annotations : \A k \in RowsOf(a) :
        LET row == generated[k]
            ans_start == answers_span[a].answer_start
            ans_end   == answers_span[a].answer_end
        IN ans_start <= ans_end =>
             IF InclusiveOverlap(row.subcontext_start, row.subcontext_end,
                                 ans_start, ans_end)
                  >= Min(ans_end - ans_start + 1, min_answer_length)
             THEN /\ ~Sentinel(row)
                  /\ row.answer_start >= 0
                  /\ row.answer_end >= row.answer_start
             ELSE Sentinel(row)

(* C2: the sequence __getitem__ assembles has, before padding, length      *)
(* len_question + (length of the context slice) + n_seps, and input_ids    *)
(* and attention_mask both have length exactly max_length after padding.   *)
(* Stated for tables built from valid annotations.                         *)
C2_AssembledLength ==
    (Got /\ AllValidAnnotations) =>
      LET instance == subsample_spans[idx + 1]
          question == GetInstance(instance.question_id, "question")
          context  == GetInstance(instance.context_id, "context")
          slice    == Subcontext(context, instance)
      IN /\ Len(subsample.input_ids)
              = Len(question.input_ids) + Len(slice.input_ids)
                  + NSeps(tokenizer_info.seperators)
         /\ Len(item.input_ids) = max_length
         /\ Len(item.attention_mask) = max_length

(* C3: under a valid configuration every window has length exactly         *)
(* subcontext_max_length, the first window starts at 0, and the next       *)
(* window starts subcontext_max_length - stride after the previous one     *)
(* (consecutive windows share exactly stride tokens).                      *)
C3_WindowsFixedLengthAndOverlap ==
    pc = "built" =>
      \A a \in Annotations :
        ValidConfig(a) =>
          LET sml == SubcontextMaxLength(LenQuestion(a))
              first == CHOOSE k \in RowsOf(a) : \A j \in RowsOf(a) : k <= j
          IN /\ RowsOf(a) # {}
             /\ generated[first].subcontext_start = 0
             /\ \A k \in RowsOf(a) :
                  /\ generated[k].subcontext_end
                       - generated[k].subcontext_start + 1 = sml
                  /\ (k + 1) \in RowsOf(a) =>
                       /\ generated[k + 1].subcontext_start
                            = generated[k].subcontext_start + sml - stride
                       /\ InclusiveOverlap(generated[k].subcontext_start,
                                           generated[k].subcontext_end,
                                           generated[k + 1].subcontext_start,
                                           generated[k + 1].subcontext_end)
                            = stride

C3_Witness ==
    /\ pc = "built"
    /\ ValidConfig(1)
    /\ stride >= 1
    /\ Cardinality(RowsOf(1)) >= 3

(* The inputs of the concrete scenario: max_length = 10, a question of 3   *)
(* tokens, separators [-1, 5, -1], stride = 1, a context of 6 tokens, the  *)
(* answer (2, 3), min_answer_length = 1.                                   *)
C4_Scenario ==
    /\ max_length = 10
    /\ tokenizer_info.seperators = <<-1, 5, -1>>
    /\ stride = 1
    /\ min_answer_length = 1
    /\ LenQuestion(1) = 3
    /\ LenContext(1) = 6
    /\ answers_span[1].answer_start = 2
    /\ answers_span[1].answer_end = 3

(* C4 as stated: in the scenario subcontext_max_length = 6, stride_ = 5,   *)
(* n_sub = 1, the one window is (0, 5), and the answer (2, 3) is remapped  *)
(* to (6, 7).                                                              *)
C4_ConcreteScenario ==
    (C4_Scenario /\ pc # "new") =>
      /\ pc = "built"
      /\ n_seps_before_context = 1
      /\ SubcontextMaxLength(3) = 6
      /\ EffectiveStride(3) = 5
      /\ NSub(6, EffectiveStride(3)) = 1
      /\ \E k \in 1..Len(generated) :
            /\ RowsOf(1) = {k}
            /\ generated[k].subcontext_start = 0
            /\ generated[k].subcontext_end = 5
            /\ generated[k].answer_start = 6
            /\ generated[k].answer_end = 7

(* C4 amended: in the scenario n_sub = (6 - 1) // 5 + 1 = 2: the windows   *)
(* are (0, 5) and (5, 10); the answer (2, 3) is remapped to (6, 7) in the  *)
(* first and is the sentinel (0, 0) in the second.                         *)
C4_ScenarioTwoWindows ==
    (C4_Scenario /\ pc # "new") =>
      /\ pc = "built"
      /\ n_seps_before_context = 1
      /\ SubcontextMaxLength(3) = 6
      /\ EffectiveStride(3) = 5
      /\ NSub(6, EffectiveStride(3)) = 2
      /\ RowsOf(1) = {1, 2}
      /\ generated[1].subcontext_start = 0
      /\ generated[1].subcontext_end = 5
      /\ generated[1].answer_start = 6
      /\ generated[1].answer_end = 7
      /\ generated[2].subcontext_start = 5
      /\ generated[2].subcontext_end = 10
      /\ Sentinel(generated[2])

C4_Witness == C4_Scenario /\ pc = "built" /\ Len(generated) >= 2

(* C5: construction fails and leaves no span table whenever some           *)
(* annotation has subcontext_max_length <= 0 or stride_ <= 0.  Stated for   *)
(* valid annotations.                                                      *)
C5_BadConfigFails ==
    (/\ pc # "new"
     /\ AllValidAnnotations
     /\ \E a \in Annotations :
           \/ SubcontextMaxLength(LenQuestion(a)) <= 0
           \/ EffectiveStride(LenQuestion(a)) <= 0)
      => /\ pc = "failed"
         /\ generated = << >>
         /\ subsample_spans = << >>

(* C6: n_sub is at least 1: under a valid configuration every annotation   *)
(* (its context has at least one token, possibly fewer than stride) gets   *)
(* at least one row of the pre-balancing table.  Stated for valid          *)
(* annotations.                                                            *)
C6_AtLeastOneWindow ==
    (/\ pc # "new"
     /\ AllValidAnnotations
     /\ \A a \in Annotations : ValidConfig(a) /\ LenContext(a) >= 1)
      => /\ pc = "built"
         /\ \A a \in Annotations : RowsOf(a) # {}

(* C7: an annotation with answer_end < answer_start, or with answer        *)
(* indices outside [0, len_context - 1], makes construction fail: it       *)
(* yields no rows, in particular none with a non-sentinel answer.  Stated   *)
(* under a valid configuration.                                            *)
C7_BadAnnotationFails ==
    (/\ pc # "new"
     /\ AllValidConfig
     /\ \E a \in Annotations : ~ValidAnnotation(a))
      => /\ pc = "failed"
         /\ generated = << >>

(* C8: for a row whose answer is not the sentinel and lies inside both the *)
(* window and the context, positions start_positions..end_positions of     *)
(* the returned input_ids hold the context tokens ans_start..ans_end.      *)
(* Stated for tables built from valid annotations.                         *)
C8_LabelsPointAtAnswerTokens ==
    (Got /\ AllValidAnnotations) =>
      LET instance == subsample_spans[idx + 1]
          a == CHOOSE b \in Annotations :
                  answers_span[b].question_id = instance.question_id
          ans_start == answers_span[a].answer_start
          ans_end   == answers_span[a].answer_end
      IN (/\ ~Sentinel(instance)
          /\ instance.subcontext_start <= ans_start
          /\ ans_start <= ans_end
          /\ ans_end <= Min(instance.subcontext_end, LenContext(a) - 1))
           => /\ item.end_positions - item.start_positions = ans_end - ans_start
              /\ \A j \in 0..(ans_end - ans_start) :
                    /\ (item.start_positions + j + 1) \in DOMAIN item.input_ids
                    /\ item.input_ids[item.start_positions + j + 1]
                         = CTok(instance.context_id, ans_start + j)

(* C9: with valid annotations and a valid configuration, every annotation  *)
(* has at least one row whose answer is not the sentinel.                  *)
C9_SomeWindowAnswerable ==
    (/\ pc # "new"
     /\ min_answer_length >= 1
     /\ AllValidConfig
     /\ AllValidAnnotations)
      => /\ pc = "built"
         /\ \A a \in Annotations :
               \E k \in RowsOf(a) : ~Sentinel(generated[k])

(* C10 as stated: under a valid configuration every window starts          *)
(* strictly below len_context, so the slice __getitem__ takes for it       *)
(* holds at least one context token.  Stated for valid annotations.        *)
C10_WindowStartsInsideContext ==
    (pc = "built" /\ AllValidAnnotations) =>
      \A a \in Annotations :
        ValidConfig(a) =>
          \A k \in RowsOf(a) :
             /\ generated[k].subcontext_start < LenContext(a)
             /\ Len(Subcontext(GetInstance(generated[k].context_id, "context"),
                               generated[k]).input_ids) >= 1

(* C10 amended: under a valid configuration every window starts at most at *)
(* len_context - stride; with stride >= 1 it therefore starts strictly     *)
(* below len_context and its slice holds at least one context token.       *)
C10_WindowStartsAtMostLenMinusStride ==
    pc = "built" =>
      \A a \in Annotations :
        ValidConfig(a) =>
          \A k \in RowsOf(a) :
             /\ generated[k].subcontext_start <= LenContext(a) - stride
             /\ stride >= 1 =>
                  /\ generated[k].subcontext_start < LenContext(a)
                  /\ Len(Subcontext(GetInstance(generated[k].context_id,
                                                "context"),
                                    generated[k]).input_ids) >= 1

C10_Witness ==
    /\ pc = "built"
    /\ ValidConfig(1)
    /\ stride >= 1
    /\ \E k \in RowsOf(1) :
          /\ k > 1
          /\ generated[k].subcontext_start = LenContext(1) - stride

====
